---- MODULE Spec2Model ----
(***************************************************************************)
(* Model of the video quality checker: the command line program            *)
(* (video_checker.py, variant "cli") and the analysis thread of the GUI    *)
(* program (video_checker_gui.py, variant "gui").                          *)
(*                                                                         *)
(* Numbers.  The programs compute with floats.  The model computes with    *)
(* exact rationals <<n, d>> (d > 0): timestamps and durations are whole    *)
(* seconds, a frame rate is num/den, a peak start is index/sample_rate.    *)
(* Sample amplitudes live on an integer grid on which the linear peak      *)
(* threshold 10^(PEAK_DBFS_THRESHOLD/20) is a grid point.                  *)
(***************************************************************************)
EXTENDS Integers, Sequences, FiniteSets, TLC

VARIABLES
    variant,          \* "cli" (video_checker.py) or "gui" (video_checker_gui.py)
    pc,               \* position of main / run_analysis
    file_exists,      \* os.path.exists(args.file)
    ffmpeg_exists,    \* os.path.exists(ffmpeg_path)
    ffprobe_exists,   \* os.path.exists(ffprobe_path)
    version_check,    \* outcome of `ffmpeg -version` in check_ffmpeg_available
    declared_channels, \* the channel count the operator declared
    num_channels,     \* args.channels / self.num_channels
    probe,            \* what ffprobe answered to the Metadata Resolver
    metadata,         \* video_metadata / metadata
    log,              \* what was printed / put on the queue, in order
    outcome,          \* per detector: how its call ended
    engine_calls,     \* the external engine operations invoked so far
    scene_cut_times,  \* local of find_short_shots
    short_shots,      \* local of find_short_shots
    audio_data,       \* local of _find_audio_peaks: the decoded samples (flat)
    actual_channels,  \* local of _find_audio_peaks
    stderr,           \* local of a detector: the diagnostic lines of each of
                      \* its engine invocations, in order
    \* the window of the gui (class App) and its analysis threads
    queue,            \* App.queue: the messages put and not yet taken
    output_text,      \* App.output_text: the messages on display
    analyze_button,   \* state of App.analyze_button
    status_var,       \* App.status_var
    analysis_thread,  \* App.analysis_thread: 0 while the attribute is not set
    thread_pc,        \* per thread started: position of its run_analysis
    put_count,        \* per thread started: the messages it has logged
    ui_pc,            \* position of the interactive thread in process_queue
    logged,           \* history: every message put on the queue, in order
    displayed         \* history: every message inserted into output_text

pipeVars == <<variant, pc, file_exists, ffmpeg_exists, ffprobe_exists, version_check,
              declared_channels, num_channels, probe, metadata, log, outcome,
              engine_calls, scene_cut_times, short_shots, audio_data,
              actual_channels, stderr>>

appVars == <<queue, output_text, analyze_button, status_var, analysis_thread,
             thread_pc, put_count, ui_pc, logged, displayed>>

vars == <<pipeVars, appVars>>

(***************************************************************************)
(* Bounds of the model.                                                    *)
(***************************************************************************)
\* largest timestamp (seconds) the scene-cut filter reports in SpecShots
MaxTime == 6
\* most diagnostic lines of the scene-cut filter in SpecShots
MaxCuts == 2
\* most decoded samples (all channels together) in SpecPeaks
MaxSamples == 6
\* largest declared / probed channel count
MaxChannels == 2
\* most diagnostic lines of one detector call in SpecReport
MaxLines == 2
\* most decoded samples in SpecReport
MaxPipeSamples == 3
\* most analyses started in SpecApp
MaxRuns == 2
\* most progress messages one analysis logs in SpecApp
MaxMessages == 2

(***************************************************************************)
(* The window after App.__init__: nothing queued, nothing on display, the  *)
(* button enabled, no analysis thread, the first process_queue done.       *)
(***************************************************************************)
AppIdle ==
    /\ queue = <<>>
    /\ output_text = <<>>
    /\ analyze_button = "normal"
    /\ status_var = "ready"
    /\ analysis_thread = 0
    /\ thread_pc = [t \in 1..MaxRuns |-> "unstarted"]
    /\ put_count = [t \in 1..MaxRuns |-> 0]
    /\ ui_pc = "idle"
    /\ logged = <<>>
    /\ displayed = <<>>

(***************************************************************************)
(* Thresholds of the programs.                                             *)
(***************************************************************************)
SHORT_SHOT_MIN_FRAMES == 5
\* 0.2 seconds
PEAK_MAX_DURATION_S == <<1, 5>>
\* 10 ** (PEAK_DBFS_THRESHOLD / 20) on the amplitude grid
peak_amplitude_threshold == 2
DEFAULT_FPS == 25
DEFAULT_SAMPLE_RATE == 48000

(***************************************************************************)
(* Exact rationals <<n, d>> with d > 0.                                    *)
(***************************************************************************)
Rat(n, d) == <<n, d>>
RatLess(a, b) == a[1] * b[2] < b[1] * a[2]
RatEq(a, b) == a[1] * b[2] = b[1] * a[2]
RatLeq(a, b) == a[1] * b[2] <= b[1] * a[2]
RatMul(a, b) == <<a[1] * b[1], a[2] * b[2]>>
\* a / b for b > 0
RatDiv(a, b) == <<a[1] * b[2], a[2] * b[1]>>
RatIsZero(a) == a[1] = 0

Min(a, b) == IF a < b THEN a ELSE b
Abs(x) == IF x < 0 THEN 0 - x ELSE x

\* all sequences over S of length at most n
SeqsUpTo(S, n) == UNION {[1..k -> S] : k \in 0..n}

(***************************************************************************)
(* The log: what the run prints (cli) or puts on the queue (gui).          *)
(***************************************************************************)
Msg(text) ==
    [msg |-> text, cat |-> "", channel |-> 0, start |-> <<0, 1>>, extra |-> <<>>]
Finding(cat, channel, start, extra) ==
    [msg |-> "finding", cat |-> cat, channel |-> channel, start |-> start,
     extra |-> extra]

Detectors == {"mute", "shots", "peaks", "black"}
NoOutcome == [d \in Detectors |-> "none"]

\* metadata is None
NoneMetadata ==
    [none |-> TRUE, fps |-> <<0, 1>>, duration |-> 0, sample_rate |-> 0,
     channels |-> 0]

(***************************************************************************)
(* Shot-Length Detector (find_short_shots / _find_short_shots).            *)
(* A diagnostic line is [pts |-> TRUE, t |-> seconds] when it carries      *)
(* "pts_time:<number>", and [pts |-> FALSE, t |-> 0] otherwise.            *)
(***************************************************************************)
RECURSIVE ParsePtsTimes(_)
ParsePtsTimes(lines) ==
    IF lines = <<>> THEN <<>>
    ELSE (IF Head(lines).pts THEN <<Head(lines).t>> ELSE <<>>)
         \o ParsePtsTimes(Tail(lines))

\* scene_cut_times = [0.0] + parsed + [metadata["duration"]]
SceneCutTimes(lines, duration) == <<0>> \o ParsePtsTimes(lines) \o <<duration>>

\* min_duration_s = SHORT_SHOT_MIN_FRAMES / fps
MinDurationS(fps) == RatDiv(Rat(SHORT_SHOT_MIN_FRAMES, 1), fps)

\* a variant of IsShort whose upper bound is not strict
IsShortMutLeq(duration, fps) ==
    0 < duration /\ RatLeq(Rat(duration, 1), MinDurationS(fps))

\* 0 < duration < min_duration_s
IsShort(duration, fps) ==
    0 < duration /\ RatLess(Rat(duration, 1), MinDurationS(fps))

RECURSIVE ShortShotsFrom(_, _, _)
ShortShotsFrom(times, fps, i) ==
    IF i > Len(times) - 1 THEN <<>>
    ELSE LET start_time == times[i]
             duration == times[i + 1] - start_time
         IN (IF IsShort(duration, fps)
             THEN <<[start |-> start_time,
                     duration_frames |-> RatMul(Rat(duration, 1), fps)]>>
             ELSE <<>>)
            \o ShortShotsFrom(times, fps, i + 1)

FindShortShots(times, fps) == ShortShotsFrom(times, fps, 1)

RECURSIVE ShotEntries(_)
ShotEntries(shots) ==
    IF shots = <<>> THEN <<>>
    ELSE <<Finding("shots", 0, Rat(Head(shots).start, 1),
                   Head(shots).duration_frames)>>
         \o ShotEntries(Tail(shots))

\* the skip test of the two programs
ShotsSkipped ==
    IF variant = "cli"
    THEN metadata.none \/ RatIsZero(metadata.fps)
    ELSE metadata.none \/ RatIsZero(metadata.fps) \/ metadata.duration = 0

\* One call of the detector.  CutOutputs: the diagnostic outputs the engine
\* may produce.  raises: the engine invocation raises (OSError).
FindShortShotsStep(CutOutputs) ==
    /\ pc = "shots"
    /\ \E lines \in CutOutputs, raises \in BOOLEAN :
        IF ShotsSkipped
        THEN /\ log' = log \o <<Msg("shots_header"), Msg("shots_skipped")>>
             /\ outcome' = [outcome EXCEPT !["shots"] = "skipped"]
             /\ pc' = "peaks"
             /\ scene_cut_times' = <<>>
             /\ short_shots' = <<>>
             /\ stderr' = <<>>
             /\ UNCHANGED engine_calls
        ELSE IF raises
        THEN /\ engine_calls' = engine_calls \cup {"scenedetect"}
             /\ stderr' = <<>>
             /\ scene_cut_times' = <<>>
             /\ short_shots' = <<>>
             /\ IF variant = "cli"
                THEN /\ log' = log \o <<Msg("shots_header"), Msg("shots_error")>>
                     /\ outcome' = [outcome EXCEPT !["shots"] = "failed"]
                     /\ pc' = "peaks"
                ELSE /\ log' = log \o <<Msg("shots_header")>>
                     /\ outcome' = [outcome EXCEPT !["shots"] = "crashed"]
                     /\ pc' = "crashed"
        ELSE LET times == SceneCutTimes(lines, metadata.duration)
                 shots == FindShortShots(times, metadata.fps)
             IN /\ engine_calls' = engine_calls \cup {"scenedetect"}
                /\ stderr' = <<lines>>
                /\ scene_cut_times' = times
                /\ short_shots' = shots
                /\ log' = log \o <<Msg("shots_header")>>
                              \o (IF shots # <<>>
                                  THEN <<Msg("shots_found")>> \o ShotEntries(shots)
                                  ELSE <<Msg("shots_none")>>)
                /\ outcome' = [outcome EXCEPT !["shots"] = "ran"]
                /\ pc' = "peaks"
    /\ UNCHANGED appVars
    /\ UNCHANGED <<variant, declared_channels, file_exists, ffmpeg_exists, ffprobe_exists,
                   version_check, num_channels, probe, metadata, audio_data,
                   actual_channels>>

(***************************************************************************)
(* SpecShots: the Shot-Length Detector alone, on every metadata and every  *)
(* diagnostic output within the bounds.                                    *)
(***************************************************************************)
PtsLines(maxT) ==
    {[pts |-> TRUE, t |-> t] : t \in 0..maxT} \cup {[pts |-> FALSE, t |-> 0]}

ShotsFps == {Rat(0, 1), Rat(1, 1), Rat(5, 2), Rat(5, 1)}

NoProbe == [garbage |-> TRUE, raises |-> FALSE, streams |-> <<>>]

InitShots ==
    /\ variant \in {"cli", "gui"}
    /\ pc = "shots"
    /\ file_exists = TRUE
    /\ ffmpeg_exists = TRUE
    /\ ffprobe_exists = TRUE
    /\ version_check = "none"
    /\ num_channels = 1
    /\ declared_channels = num_channels
    /\ stderr = <<>>
    /\ probe = NoProbe
    /\ metadata \in {[none |-> FALSE, fps |-> f, duration |-> d,
                      sample_rate |-> DEFAULT_SAMPLE_RATE, channels |-> 1] :
                     f \in ShotsFps, d \in 0..MaxTime}
    /\ log = <<>>
    /\ outcome = NoOutcome
    /\ engine_calls = {}
    /\ scene_cut_times = <<>>
    /\ short_shots = <<>>
    /\ audio_data = <<>>
    /\ actual_channels = 0
    /\ AppIdle

ShotsCutOutputs == SeqsUpTo(PtsLines(MaxTime), MaxCuts)

NextShots == FindShortShotsStep(ShotsCutOutputs)

SpecShots == InitShots /\ [][NextShots]_vars

(***************************************************************************)
(* Peak Detector (_find_audio_peaks; find_audio_peaks of the cli is a      *)
(* stub).  Indices are those of NumPy (from 0); a TLA+ sequence holds      *)
(* index j at position j + 1.                                              *)
(***************************************************************************)
\* audio_data.reshape(-1, c)[:, i]
ChannelData(data, c, i) ==
    [k \in 1..(Len(data) \div c) |-> data[(k - 1) * c + i + 1]]

\* np.abs(channel_data) > self.peak_amplitude_threshold
IsPeak(channel_data) ==
    [k \in 1..Len(channel_data) |->
        Abs(channel_data[k]) > peak_amplitude_threshold]

\* is_peak.astype(int)
AsInt(mask) == [k \in 1..Len(mask) |-> IF mask[k] THEN 1 ELSE 0]

\* a variant of Diff without the appended 0
DiffMutNoAppend(x) ==
    LET padded == <<0>> \o x
    IN [k \in 1..Len(x) |-> padded[k + 1] - padded[k]]

\* np.diff(x, prepend=0, append=0): N + 1 differences of 0, x, 0
Diff(x) ==
    LET padded == <<0>> \o x \o <<0>>
    IN [k \in 1..(Len(x) + 1) |-> padded[k + 1] - padded[k]]

\* np.where(d == v)[0]: the indices (from 0) holding v, ascending
RECURSIVE WhereFrom(_, _, _)
WhereFrom(d, v, k) ==
    IF k > Len(d) THEN <<>>
    ELSE (IF d[k] = v THEN <<k - 1>> ELSE <<>>) \o WhereFrom(d, v, k + 1)
Where(d, v) == WhereFrom(d, v, 1)

Starts(channel_data) == Where(Diff(AsInt(IsPeak(channel_data))), 1)
Ends(channel_data) == Where(Diff(AsInt(IsPeak(channel_data))), 0 - 1)

\* zip(starts, ends)
Zip(a, b) == [k \in 1..Min(Len(a), Len(b)) |-> <<a[k], b[k]>>]

\* a variant of IsShortPeak whose upper bound is not strict
IsShortPeakMutLeq(start, end, sample_rate) ==
    LET duration_s == Rat(end - start, sample_rate)
    IN RatLess(Rat(0, 1), duration_s) /\ RatLeq(duration_s, PEAK_MAX_DURATION_S)

\* 0 < duration_s < PEAK_MAX_DURATION_S, duration_s = (end - start) / sample_rate
IsShortPeak(start, end, sample_rate) ==
    LET duration_s == Rat(end - start, sample_rate)
    IN RatLess(Rat(0, 1), duration_s) /\ RatLess(duration_s, PEAK_MAX_DURATION_S)

\* short_peaks of one channel: start / sample_rate of every short run
RECURSIVE ShortPeaksOf(_, _)
ShortPeaksOf(pairs, sample_rate) ==
    IF pairs = <<>> THEN <<>>
    ELSE (IF IsShortPeak(Head(pairs)[1], Head(pairs)[2], sample_rate)
          THEN <<Rat(Head(pairs)[1], sample_rate)>>
          ELSE <<>>)
         \o ShortPeaksOf(Tail(pairs), sample_rate)

ShortPeaks(channel_data, sample_rate) ==
    IF \A k \in 1..Len(channel_data) : ~IsPeak(channel_data)[k]
    THEN <<>>
    ELSE ShortPeaksOf(Zip(Starts(channel_data), Ends(channel_data)), sample_rate)

RECURSIVE PeakEntries(_, _)
PeakEntries(times, channel_num) ==
    IF times = <<>> THEN <<>>
    ELSE <<Finding("peaks", channel_num, Head(times), <<>>)>>
         \o PeakEntries(Tail(times), channel_num)

\* what the loop over the channels i .. c-1 logs
RECURSIVE PeakLoopLog(_, _, _, _)
PeakLoopLog(data, c, sample_rate, i) ==
    IF i >= c THEN <<>>
    ELSE LET short_peaks == ShortPeaks(ChannelData(data, c, i), sample_rate)
         IN <<Msg("peaks_channel")>>
            \o (IF short_peaks # <<>>
                THEN <<Msg("peaks_found")>> \o PeakEntries(short_peaks, i + 1)
                ELSE <<>>)
            \o PeakLoopLog(data, c, sample_rate, i + 1)

\* found_any_peak after the loop
FoundAnyPeak(data, c, sample_rate) ==
    \E i \in 0..(c - 1) : ShortPeaks(ChannelData(data, c, i), sample_rate) # <<>>

\* One call of the detector.  PcmOutputs: what the decode may deliver, each
\* [samples |-> the whole float32 samples, partial |-> whether bytes that do
\* not make up a whole sample follow them].  raises: Popen raises (OSError).
FindAudioPeaksStep(PcmOutputs) ==
    /\ pc = "peaks"
    /\ \E pcm \in PcmOutputs, raises \in BOOLEAN :
        IF variant = "cli"
        THEN \* the stub: prints that the check is not implemented, returns []
             /\ log' = log \o <<Msg("peaks_header"), Msg("peaks_not_implemented")>>
             /\ outcome' = [outcome EXCEPT !["peaks"] = "stub"]
             /\ pc' = "black"
             /\ UNCHANGED <<engine_calls, audio_data, actual_channels>>
        ELSE IF metadata.none \/ metadata.sample_rate = 0
        THEN /\ log' = log \o <<Msg("peaks_header"), Msg("peaks_no_metadata")>>
             /\ outcome' = [outcome EXCEPT !["peaks"] = "skipped"]
             /\ pc' = "black"
             /\ UNCHANGED <<engine_calls, audio_data, actual_channels>>
        ELSE IF raises
        THEN /\ log' = log \o <<Msg("peaks_header")>>
             /\ outcome' = [outcome EXCEPT !["peaks"] = "crashed"]
             /\ pc' = "crashed"
             /\ engine_calls' = engine_calls \cup {"decode"}
             /\ UNCHANGED <<audio_data, actual_channels>>
        ELSE IF pcm.samples = <<>> /\ ~pcm.partial
        THEN \* not audio_data_raw
             /\ log' = log \o <<Msg("peaks_header"), Msg("peaks_no_audio")>>
             /\ outcome' = [outcome EXCEPT !["peaks"] = "no_audio"]
             /\ pc' = "black"
             /\ engine_calls' = engine_calls \cup {"decode"}
             /\ UNCHANGED <<audio_data, actual_channels>>
        ELSE IF pcm.partial
        THEN \* np.frombuffer: the buffer size is no multiple of the element size
             /\ log' = log \o <<Msg("peaks_header")>>
             /\ outcome' = [outcome EXCEPT !["peaks"] = "crashed"]
             /\ pc' = "crashed"
             /\ engine_calls' = engine_calls \cup {"decode"}
             /\ UNCHANGED <<audio_data, actual_channels>>
        ELSE IF num_channels = 0
        THEN \* expected_samples_x_channels % 0: ZeroDivisionError
             /\ log' = log \o <<Msg("peaks_header")>>
             /\ outcome' = [outcome EXCEPT !["peaks"] = "crashed"]
             /\ pc' = "crashed"
             /\ engine_calls' = engine_calls \cup {"decode"}
             /\ audio_data' = pcm.samples
             /\ actual_channels' = num_channels
        ELSE IF Len(pcm.samples) % num_channels # 0
        THEN /\ log' = log \o <<Msg("peaks_header"), Msg("peaks_channel_mismatch")>>
             /\ outcome' = [outcome EXCEPT !["peaks"] = "skipped"]
             /\ pc' = "black"
             /\ engine_calls' = engine_calls \cup {"decode"}
             /\ audio_data' = pcm.samples
             /\ actual_channels' = num_channels
        ELSE /\ log' = log \o <<Msg("peaks_header")>>
                           \o PeakLoopLog(pcm.samples, num_channels,
                                          metadata.sample_rate, 0)
                           \o (IF FoundAnyPeak(pcm.samples, num_channels,
                                               metadata.sample_rate)
                               THEN <<>> ELSE <<Msg("peaks_none")>>)
             /\ outcome' = [outcome EXCEPT !["peaks"] = "ran"]
             /\ pc' = "black"
             /\ engine_calls' = engine_calls \cup {"decode"}
             /\ audio_data' = pcm.samples
             /\ actual_channels' = num_channels
    /\ scene_cut_times' = <<>>
    /\ short_shots' = <<>>
    /\ stderr' = <<>>
    /\ UNCHANGED appVars
    /\ UNCHANGED <<variant, declared_channels, file_exists, ffmpeg_exists,
                   ffprobe_exists, version_check, num_channels, probe, metadata>>

(***************************************************************************)
(* SpecPeaks: the Peak Detector of the gui alone, on every decoded sample  *)
(* sequence, channel count and sample rate within the bounds.              *)
(***************************************************************************)
\* below, at and above the threshold, of either sign
Amplitudes == {0 - 3, 0, peak_amplitude_threshold, 3}

PcmOutputs(S, n) ==
    {[samples |-> s, partial |-> p] : s \in SeqsUpTo(S, n), p \in BOOLEAN}

\* 0.2 s is 1, 2 and 3 samples at these rates
PeaksSampleRates == {0, 5, 10, 15}

InitPeaks ==
    /\ variant = "gui"
    /\ pc = "peaks"
    /\ file_exists = TRUE
    /\ ffmpeg_exists = TRUE
    /\ ffprobe_exists = TRUE
    /\ version_check = "none"
    /\ num_channels \in 0..MaxChannels
    /\ declared_channels = num_channels
    /\ stderr = <<>>
    /\ probe = NoProbe
    /\ metadata \in {[none |-> FALSE, fps |-> Rat(DEFAULT_FPS, 1), duration |-> 0,
                      sample_rate |-> r, channels |-> num_channels] :
                     r \in PeaksSampleRates}
    /\ log = <<>>
    /\ outcome = NoOutcome
    /\ engine_calls = {}
    /\ scene_cut_times = <<>>
    /\ short_shots = <<>>
    /\ audio_data = <<>>
    /\ actual_channels = 0
    /\ AppIdle

PeaksPcmOutputs == PcmOutputs(Amplitudes, MaxSamples)

NextPeaks == FindAudioPeaksStep(PeaksPcmOutputs)

SpecPeaks == InitPeaks /\ [][NextPeaks]_vars

(***************************************************************************)
(* Start of a run: main up to the banner (cli), run_analysis up to the     *)
(* binaries test (gui).  The cli tests the file, then the binaries and     *)
(* `ffmpeg -version`; the gui tests only that the binaries exist.          *)
(***************************************************************************)
VersionResults == {"ok", "CalledProcessError", "OSError"}

\* a variant of BinariesMissing that wants both binaries missing
BinariesMissingMutAnd == ~ffmpeg_exists /\ ~ffprobe_exists
\* not os.path.exists(ffmpeg_path) or not os.path.exists(ffprobe_path)
BinariesMissing == ~ffmpeg_exists \/ ~ffprobe_exists

StartStep ==
    /\ pc = "start"
    /\ \E r \in VersionResults :
        IF variant = "cli"
        THEN IF ~file_exists
             THEN /\ log' = log \o <<Msg("error_no_file")>>
                  /\ pc' = "aborted"
                  /\ UNCHANGED <<version_check, engine_calls>>
             ELSE IF BinariesMissing
             THEN \* raise FileNotFoundError, caught: print, return False
                  /\ log' = log \o <<Msg("error_no_binaries")>>
                  /\ pc' = "aborted"
                  /\ UNCHANGED <<version_check, engine_calls>>
             ELSE /\ engine_calls' = engine_calls \cup {"version"}
                  /\ version_check' = r
                  /\ IF r = "ok"
                     THEN /\ log' = log \o <<Msg("start")>>
                          /\ pc' = "metadata"
                     ELSE IF r = "CalledProcessError"
                     THEN /\ log' = log \o <<Msg("error_no_binaries")>>
                          /\ pc' = "aborted"
                     ELSE \* an OSError other than FileNotFoundError is not caught
                          /\ log' = log
                          /\ pc' = "crashed"
        ELSE IF BinariesMissing
             THEN /\ log' = log \o <<Msg("start"), Msg("error_no_binaries")>>
                  /\ pc' = "aborted"
                  /\ UNCHANGED <<version_check, engine_calls>>
             ELSE /\ log' = log \o <<Msg("start")>>
                  /\ pc' = "metadata"
                  /\ UNCHANGED <<version_check, engine_calls>>
    /\ UNCHANGED appVars
    /\ UNCHANGED <<variant, declared_channels, file_exists, ffmpeg_exists,
                   ffprobe_exists, num_channels, probe, metadata, outcome,
                   scene_cut_times, short_shots, audio_data, actual_channels,
                   stderr>>

(***************************************************************************)
(* Metadata Resolver (get_video_metadata / _get_video_metadata).           *)
(* The answer of ffprobe: raises (how the invocation fails, or "none"),    *)
(* garbage (the output does not parse) and the streams, each with its      *)
(* codec_type, the set `has` of the fields it carries, and their values;   *)
(* r_frame_rate "num/den" is <<num, den>>.                                 *)
(***************************************************************************)
Stream(codec_type, has, r_frame_rate, duration, sample_rate, channels) ==
    [codec_type |-> codec_type, has |-> has, r_frame_rate |-> r_frame_rate,
     duration |-> duration, sample_rate |-> sample_rate, channels |-> channels]

\* fps of the gui: num / den if den != 0 else 25.0; "0/0" keeps the default
GuiFps(stream, fps) ==
    IF "r_frame_rate" \in stream.has /\ stream.r_frame_rate # <<0, 0>>
    THEN IF stream.r_frame_rate[2] # 0
         THEN Rat(stream.r_frame_rate[1], stream.r_frame_rate[2])
         ELSE Rat(DEFAULT_FPS, 1)
    ELSE fps

\* a variant of GuiChannels that keeps the declared count
GuiChannelsMutKeep(stream, channels) == channels
\* the channel count the gui takes from an audio stream
GuiChannels(stream, channels) ==
    IF "channels" \in stream.has THEN stream.channels ELSE channels

\* the loop over ffprobe_data["streams"]
RECURSIVE GuiResolveStreams(_, _)
GuiResolveStreams(streams, md) ==
    IF streams = <<>> THEN md
    ELSE LET stream == Head(streams)
             next ==
                IF stream.codec_type = "video"
                THEN [md EXCEPT
                        !.fps = GuiFps(stream, @),
                        !.duration = IF "duration" \in stream.has
                                     THEN stream.duration ELSE @]
                ELSE IF stream.codec_type = "audio"
                THEN [md EXCEPT
                        !.sample_rate = IF "sample_rate" \in stream.has
                                        THEN stream.sample_rate ELSE @,
                        !.channels = GuiChannels(stream, @)]
                ELSE md
         IN GuiResolveStreams(Tail(streams), next)

\* the defaults, then the streams
GuiMetadata(p, declared) ==
    GuiResolveStreams(p.streams,
        [none |-> FALSE, fps |-> Rat(DEFAULT_FPS, 1), duration |-> 0,
         sample_rate |-> DEFAULT_SAMPLE_RATE, channels |-> declared])

\* fps of the cli: num / den if den != 0 else 0
CliFps(r_frame_rate) ==
    IF r_frame_rate[2] # 0 THEN Rat(r_frame_rate[1], r_frame_rate[2])
    ELSE Rat(0, 1)

\* the cli reads the two values of the video stream; a missing value is an
\* IndexError or ValueError, caught: None
CliMetadata(p) ==
    IF p.raises # "none" \/ p.garbage \/ p.streams = <<>>
    THEN NoneMetadata
    ELSE LET stream == Head(p.streams)
         IN IF stream.codec_type # "video"
               \/ ~({"r_frame_rate", "duration"} \subseteq stream.has)
            THEN NoneMetadata
            ELSE [none |-> FALSE, fps |-> CliFps(stream.r_frame_rate),
                  duration |-> stream.duration, sample_rate |-> 0, channels |-> 0]

MetadataStep(ProbeOutputs) ==
    /\ pc = "metadata"
    /\ \E p \in ProbeOutputs :
        /\ probe' = p
        /\ engine_calls' = engine_calls \cup {"probe"}
        /\ IF variant = "cli"
           THEN IF p.raises = "OSError"
                THEN \* not among the exceptions get_video_metadata catches
                     /\ metadata' = NoneMetadata
                     /\ log' = log
                     /\ pc' = "crashed"
                     /\ UNCHANGED num_channels
                ELSE /\ metadata' = CliMetadata(p)
                     /\ log' = log \o (IF CliMetadata(p).none
                                       THEN <<Msg("metadata_error")>> ELSE <<>>)
                     /\ pc' = "mute"
                     /\ UNCHANGED num_channels
           ELSE IF p.raises = "OSError"
                THEN \* Popen raises before the try
                     /\ metadata' = NoneMetadata
                     /\ log' = log \o <<Msg("metadata_header")>>
                     /\ pc' = "crashed"
                     /\ UNCHANGED num_channels
                ELSE IF p.raises # "none" \/ p.garbage
                THEN \* json.loads fails: return None, and run_analysis returns
                     /\ metadata' = NoneMetadata
                     /\ log' = log \o <<Msg("metadata_header"), Msg("metadata_error"),
                                        Msg("cannot_continue")>>
                     /\ pc' = "aborted"
                     /\ UNCHANGED num_channels
                ELSE /\ metadata' = GuiMetadata(p, num_channels)
                     /\ num_channels' = GuiMetadata(p, num_channels).channels
                     /\ log' = log \o <<Msg("metadata_header")>>
                                   \o (IF GuiMetadata(p, num_channels).duration = 0
                                       THEN <<Msg("metadata_no_duration")>> ELSE <<>>)
                                   \o <<Msg("metadata_read")>>
                     /\ pc' = "mute"
    /\ UNCHANGED appVars
    /\ UNCHANGED <<variant, declared_channels, file_exists, ffmpeg_exists,
                   ffprobe_exists, version_check, outcome, scene_cut_times,
                   short_shots, audio_data, actual_channels, stderr>>

(***************************************************************************)
(* Mute Detector (find_mute_segments / _find_mute_segments_per_channel).   *)
(* A diagnostic line is [mark |-> TRUE, t |-> seconds] when it carries     *)
(* "silence_start: <number>".                                              *)
(***************************************************************************)
RECURSIVE ParseSilenceStarts(_)
ParseSilenceStarts(lines) ==
    IF lines = <<>> THEN <<>>
    ELSE (IF Head(lines).mark THEN <<Head(lines).t>> ELSE <<>>)
         \o ParseSilenceStarts(Tail(lines))

RECURSIVE MuteEntries(_, _)
MuteEntries(moments, channel_num) ==
    IF moments = <<>> THEN <<>>
    ELSE <<Finding("mute", channel_num, Rat(Head(moments), 1), <<>>)>>
         \o MuteEntries(Tail(moments), channel_num)

\* a variant of GuiMuteLoopLog that takes the channels from the last down
RECURSIVE GuiMuteLoopLogMutReverse(_, _, _, _)
GuiMuteLoopLogMutReverse(outputs, i, last, raises_at) ==
    IF i > last THEN <<>>
    ELSE IF last = raises_at THEN <<Msg("mute_channel")>>
    ELSE LET mute_moments == ParseSilenceStarts(outputs[last])
         IN <<Msg("mute_channel")>>
            \o (IF mute_moments # <<>>
                THEN <<Msg("mute_found")>> \o MuteEntries(mute_moments, last)
                ELSE <<>>)
            \o GuiMuteLoopLogMutReverse(outputs, i, last - 1, raises_at)

\* what the gui logs for the channels i .. last (channel numbers from 1);
\* the loop ends early when the invocation for channel raises_at raises
RECURSIVE GuiMuteLoopLog(_, _, _, _)
GuiMuteLoopLog(outputs, i, last, raises_at) ==
    IF i > last THEN <<>>
    ELSE IF i = raises_at THEN <<Msg("mute_channel")>>
    ELSE LET mute_moments == ParseSilenceStarts(outputs[i])
         IN <<Msg("mute_channel")>>
            \o (IF mute_moments # <<>>
                THEN <<Msg("mute_found")>> \o MuteEntries(mute_moments, i)
                ELSE <<>>)
            \o GuiMuteLoopLog(outputs, i + 1, last, raises_at)

\* One call of the detector.  MuteOutputs: per channel, the diagnostic lines
\* of its invocation (the cli makes one invocation, for "channel" 1).
\* raises_at: the invocation that raises (0: none).
MuteStep(MuteOutputs, RaiseChoices) ==
    /\ pc = "mute"
    /\ \E outputs \in MuteOutputs, raises_at \in RaiseChoices :
        IF variant = "cli"
        THEN /\ engine_calls' = engine_calls \cup {"silencedetect"}
             /\ pc' = "shots"
             /\ IF raises_at = 1
                THEN /\ log' = log \o <<Msg("mute_header"), Msg("mute_error")>>
                     /\ outcome' = [outcome EXCEPT !["mute"] = "failed"]
                     /\ stderr' = <<>>
                ELSE LET mute_moments == ParseSilenceStarts(outputs[1])
                     IN /\ log' = log \o <<Msg("mute_header")>>
                                      \o (IF mute_moments # <<>>
                                          THEN <<Msg("mute_found")>>
                                               \o MuteEntries(mute_moments, 0)
                                          ELSE <<Msg("mute_none")>>)
                        /\ outcome' = [outcome EXCEPT !["mute"] = "ran"]
                        /\ stderr' = <<outputs[1]>>
        ELSE LET raised == raises_at \in 1..num_channels
                 found_any_mute ==
                    \E i \in 1..num_channels :
                        ParseSilenceStarts(outputs[i]) # <<>>
             IN /\ engine_calls' = IF num_channels > 0
                                   THEN engine_calls \cup {"silencedetect"}
                                   ELSE engine_calls
                /\ log' = log \o <<Msg("mute_header")>>
                              \o GuiMuteLoopLog(outputs, 1, num_channels, raises_at)
                              \o (IF ~raised /\ ~found_any_mute
                                  THEN <<Msg("mute_none")>> ELSE <<>>)
                /\ outcome' = [outcome EXCEPT
                                 !["mute"] = IF raised THEN "crashed" ELSE "ran"]
                /\ pc' = IF raised THEN "crashed" ELSE "shots"
                /\ stderr' = [i \in 1..(IF raised THEN raises_at - 1
                                         ELSE num_channels) |-> outputs[i]]
    /\ UNCHANGED appVars
    /\ UNCHANGED <<variant, declared_channels, file_exists, ffmpeg_exists, ffprobe_exists,
                   version_check, num_channels, probe, metadata, scene_cut_times,
                   short_shots, audio_data, actual_channels>>

(***************************************************************************)
(* Black-Frame Detector (find_black_frames / _find_black_frames).          *)
(* A diagnostic line with "black_start" is [complete, start, end,          *)
(* duration]; complete: all three fields match.                            *)
(***************************************************************************)
RECURSIVE BlackEntries(_)
BlackEntries(lines) ==
    IF lines = <<>> THEN <<>>
    ELSE (IF Head(lines).complete
          THEN <<Finding("black", 0, Rat(Head(lines).start, 1),
                         <<Head(lines).end, Head(lines).duration>>)>>
          ELSE <<>>)
         \o BlackEntries(Tail(lines))

BlackStep(BlackOutputs) ==
    /\ pc = "black"
    /\ \E lines \in BlackOutputs, raises \in BOOLEAN :
        /\ engine_calls' = engine_calls \cup {"blackdetect"}
        /\ stderr' = IF raises THEN <<>> ELSE <<lines>>
        /\ IF raises
           THEN IF variant = "cli"
                THEN /\ log' = log \o <<Msg("black_header"), Msg("black_error")>>
                     /\ outcome' = [outcome EXCEPT !["black"] = "failed"]
                     /\ pc' = "final"
                ELSE /\ log' = log \o <<Msg("black_header")>>
                     /\ outcome' = [outcome EXCEPT !["black"] = "crashed"]
                     /\ pc' = "crashed"
           ELSE /\ log' = log \o <<Msg("black_header")>>
                              \o (IF BlackEntries(lines) # <<>>
                                  THEN <<Msg("black_found")>> \o BlackEntries(lines)
                                  ELSE <<Msg("black_none")>>)
                /\ outcome' = [outcome EXCEPT !["black"] = "ran"]
                /\ pc' = "final"
    /\ audio_data' = <<>>
    /\ actual_channels' = 0
    /\ UNCHANGED appVars
    /\ UNCHANGED <<variant, declared_channels, file_exists, ffmpeg_exists, ffprobe_exists,
                   version_check, num_channels, probe, metadata, scene_cut_times,
                   short_shots>>

\* the last lines of main / run_analysis
FinishStep ==
    /\ pc = "final"
    /\ log' = log \o <<Msg("completed")>>
    /\ pc' = "done"
    /\ stderr' = <<>>
    /\ UNCHANGED appVars
    /\ UNCHANGED <<variant, declared_channels, file_exists, ffmpeg_exists, ffprobe_exists,
                   version_check, num_channels, probe, metadata, outcome,
                   engine_calls, scene_cut_times, short_shots, audio_data,
                   actual_channels>>

(***************************************************************************)
(* Spec: a whole run of either program, on every answer of ffprobe within  *)
(* the bounds; every other engine invocation answers at most one           *)
(* diagnostic line, and the decode at most one sample per channel.         *)
(***************************************************************************)
\* frame rates: "0/0", a zero denominator, zero, and 2.5 fps (at which a
\* shot of one second is short)
PipeRates == {<<0, 0>>, <<5, 0>>, <<0, 1>>, <<5, 2>>}
\* 0.2 s is two samples
PipeSampleRates == {0, 10}
\* the timestamps (seconds) of the diagnostic lines
PipeTimes == {1, 2}
PipeDurations == {0, 2}

VideoStreams ==
    {Stream("video", {}, <<0, 0>>, 0, 0, 0)}
    \cup {Stream("video", {"r_frame_rate"}, r, 0, 0, 0) : r \in PipeRates}
    \cup {Stream("video", {"r_frame_rate", "duration"}, r, d, 0, 0) :
            r \in PipeRates, d \in PipeDurations}
AudioStreams ==
    {Stream("audio", {}, <<0, 0>>, 0, 0, 0)}
    \cup {Stream("audio", {"sample_rate"}, <<0, 0>>, 0, sr, 0) :
            sr \in PipeSampleRates}
    \cup {Stream("audio", {"channels"}, <<0, 0>>, 0, 0, c) : c \in 0..MaxChannels}
    \cup {Stream("audio", {"sample_rate", "channels"}, <<0, 0>>, 0, sr, c) :
            sr \in PipeSampleRates, c \in 0..MaxChannels}

ProbeAnswer(raises, garbage, streams) ==
    [raises |-> raises, garbage |-> garbage, streams |-> streams]

PipeProbeOutputs ==
    {ProbeAnswer("OSError", FALSE, <<>>),
     ProbeAnswer("CalledProcessError", FALSE, <<>>),
     ProbeAnswer("none", TRUE, <<>>),
     ProbeAnswer("none", FALSE, <<>>)}
    \cup {ProbeAnswer("none", FALSE, <<v>>) : v \in VideoStreams}
    \cup {ProbeAnswer("none", FALSE, <<a>>) : a \in AudioStreams}
    \cup {ProbeAnswer("none", FALSE, <<v, a>>) : v \in VideoStreams, a \in AudioStreams}

SilenceLines ==
    {[mark |-> TRUE, t |-> t] : t \in PipeTimes} \cup {[mark |-> FALSE, t |-> 0]}
CutLines ==
    {[pts |-> TRUE, t |-> t] : t \in PipeTimes} \cup {[pts |-> FALSE, t |-> 0]}
BlackLines ==
    {[complete |-> TRUE, start |-> t, end |-> t + 1, duration |-> 1] :
        t \in PipeTimes}
    \cup {[complete |-> FALSE, start |-> 0, end |-> 0, duration |-> 0]}
PipeAmplitudes == {0, 3}

\* one silence line at most per invocation
PipeMuteOutputs ==
    [1..MaxChannels -> {<<>>, <<[mark |-> TRUE, t |-> 1]>>, <<[mark |-> FALSE, t |-> 0]>>}]
PipeRaiseChoices == 0..MaxChannels
PipeCutOutputs == {<<>>, <<[pts |-> TRUE, t |-> 1]>>, <<[pts |-> FALSE, t |-> 0]>>}
PipePcmOutputs == PcmOutputs(PipeAmplitudes, MaxChannels)
PipeBlackOutputs ==
    {<<>>, <<[complete |-> TRUE, start |-> 1, end |-> 2, duration |-> 1]>>,
     <<[complete |-> FALSE, start |-> 0, end |-> 0, duration |-> 0]>>}

Init ==
    /\ variant \in {"cli", "gui"}
    /\ pc = "start"
    /\ file_exists \in (IF variant = "cli" THEN BOOLEAN ELSE {TRUE})
    /\ ffmpeg_exists \in BOOLEAN
    /\ ffprobe_exists \in BOOLEAN
    /\ version_check = "none"
    /\ num_channels \in 1..MaxChannels
    /\ declared_channels = num_channels
    /\ stderr = <<>>
    /\ probe = NoProbe
    /\ metadata = NoneMetadata
    /\ log = <<>>
    /\ outcome = NoOutcome
    /\ engine_calls = {}
    /\ scene_cut_times = <<>>
    /\ short_shots = <<>>
    /\ audio_data = <<>>
    /\ actual_channels = 0
    /\ AppIdle

Next ==
    \/ StartStep
    \/ MetadataStep(PipeProbeOutputs)
    \/ MuteStep(PipeMuteOutputs, PipeRaiseChoices)
    \/ FindShortShotsStep(PipeCutOutputs)
    \/ FindAudioPeaksStep(PipePcmOutputs)
    \/ BlackStep(PipeBlackOutputs)
    \/ FinishStep

Spec == Init /\ [][Next]_vars

(***************************************************************************)
(* SpecReport: a whole run of either program with the binaries in place    *)
(* and well-formed metadata, on every diagnostic output of the detectors   *)
(* within the bounds.                                                      *)
(***************************************************************************)
ReportProbeOutputs ==
    {ProbeAnswer("none", FALSE,
        <<Stream("video", {"r_frame_rate", "duration"}, <<5, 2>>, 2, 0, 0),
          Stream("audio", {"sample_rate", "channels"}, <<0, 0>>, 0, 10, c)>>) :
        c \in 1..MaxChannels}

\* the engine writes its diagnostic lines in the order of the stream's time
SilenceInOrder(lines) ==
    \A i, j \in 1..Len(lines) :
        (i < j /\ lines[i].mark /\ lines[j].mark) => lines[i].t <= lines[j].t
CutsInOrder(lines) ==
    \A i, j \in 1..Len(lines) :
        (i < j /\ lines[i].pts /\ lines[j].pts) => lines[i].t <= lines[j].t
BlackInOrder(lines) ==
    \A i, j \in 1..Len(lines) :
        (i < j /\ lines[i].complete /\ lines[j].complete)
            => lines[i].start <= lines[j].start

TotalLen(f) ==
    LET RECURSIVE Sum(_)
        Sum(i) == IF i = 0 THEN 0 ELSE Len(f[i]) + Sum(i - 1)
    IN Sum(MaxChannels)

\* per channel the lines of its invocation, MaxLines lines in all
ReportSilenceOutputs ==
    {l \in SeqsUpTo(SilenceLines, MaxLines) : SilenceInOrder(l)}
ReportMuteOutputs ==
    {f \in [1..MaxChannels -> ReportSilenceOutputs] : TotalLen(f) <= MaxLines}
ReportRaiseChoices == {0}
\* the cut lines all carry a timestamp here (SpecShots has the others)
ReportCutOutputs ==
    {l \in SeqsUpTo(CutLines, MaxLines) :
        CutsInOrder(l) /\ \A i \in 1..Len(l) : l[i].pts}
ReportPcmOutputs ==
    {[samples |-> x, partial |-> FALSE] : x \in SeqsUpTo(PipeAmplitudes, MaxPipeSamples)}
ReportBlackOutputs == {l \in SeqsUpTo(BlackLines, MaxLines) : BlackInOrder(l)}

InitReport ==
    /\ variant \in {"cli", "gui"}
    /\ pc = "start"
    /\ file_exists = TRUE
    /\ ffmpeg_exists = TRUE
    /\ ffprobe_exists = TRUE
    /\ version_check = "none"
    /\ num_channels \in 1..MaxChannels
    /\ declared_channels = num_channels
    /\ stderr = <<>>
    /\ probe = NoProbe
    /\ metadata = NoneMetadata
    /\ log = <<>>
    /\ outcome = NoOutcome
    /\ engine_calls = {}
    /\ scene_cut_times = <<>>
    /\ short_shots = <<>>
    /\ audio_data = <<>>
    /\ actual_channels = 0
    /\ AppIdle

NextReport ==
    \/ StartStep
    \/ MetadataStep(ReportProbeOutputs)
    \/ MuteStep(ReportMuteOutputs, ReportRaiseChoices)
    \/ FindShortShotsStep(ReportCutOutputs)
    \/ FindAudioPeaksStep(ReportPcmOutputs)
    \/ BlackStep(ReportBlackOutputs)
    \/ FinishStep

SpecReport == InitReport /\ [][NextReport]_vars

(***************************************************************************)
(* Helpers of the properties.                                              *)
(***************************************************************************)
IsFinding(e) == e.msg = "finding"
Findings(l) == SelectSeq(l, IsFinding)
FindingsOf(l, cat) == SelectSeq(l, LAMBDA e : e.msg = "finding" /\ e.cat = cat)
FindingsOfChannel(l, cat, channel_num) ==
    SelectSeq(l, LAMBDA e : e.msg = "finding" /\ e.cat = cat
                            /\ e.channel = channel_num)

\* the k-th smallest element of a finite set of integers
KthOf(Q, k) == CHOOSE i \in Q : Cardinality({j \in Q : j <= i}) = k

\* the positions i of t whose interval t[i], t[i+1] is short at fps = n/d:
\* 0 < t[i+1] - t[i] < SHORT_SHOT_MIN_FRAMES / (n/d)
ShortIntervals(t, fps) ==
    {i \in 1..(Len(t) - 1) :
        /\ 0 < t[i + 1] - t[i]
        /\ (t[i + 1] - t[i]) * fps[1] < SHORT_SHOT_MIN_FRAMES * fps[2]}

\* the indices (from 0) of the samples of a channel above the threshold
Above(cd) == {j \in 0..(Len(cd) - 1) : Abs(cd[j + 1]) > peak_amplitude_threshold}

\* the maximal runs [a, b) of indices above the threshold
MaximalRuns(cd) ==
    {r \in (0..Len(cd)) \X (0..Len(cd)) :
        /\ r[1] < r[2]
        /\ \A j \in r[1]..(r[2] - 1) : j \in Above(cd)
        /\ (r[1] - 1) \notin Above(cd)
        /\ r[2] \notin Above(cd)}

\* the runs shorter than PEAK_MAX_DURATION_S = 1/5 s at sample rate sr
ShortRuns(cd, sr) == {r \in MaximalRuns(cd) : 5 * (r[2] - r[1]) < sr}

(***************************************************************************)
(* C1.  Shot-Length Detector: with t = 0, the parsed cuts, the duration    *)
(* and fps > 0, the short shots found (and reported) are exactly the       *)
(* consecutive pairs t[i], t[i+1] with 0 < t[i+1] - t[i] < min_frames/fps, *)
(* in order, each with start = t[i] and                                    *)
(* duration_frames = (t[i+1] - t[i]) * fps; an interval of length zero or  *)
(* of length exactly min_frames/fps is not among them.                     *)
(***************************************************************************)
C1_ShortShotsExact ==
    outcome["shots"] = "ran" =>
        LET t == scene_cut_times
            fps == metadata.fps
            Q == ShortIntervals(t, fps)
            reported == FindingsOf(log, "shots")
        IN /\ fps[1] > 0 /\ fps[2] > 0
           /\ t[1] = 0 /\ t[Len(t)] = metadata.duration
           /\ Len(short_shots) = Cardinality(Q)
           /\ Len(reported) = Cardinality(Q)
           /\ \A k \in 1..Len(short_shots) :
                LET i == KthOf(Q, k)
                    frames == Rat((t[i + 1] - t[i]) * fps[1], fps[2])
                IN /\ short_shots[k].start = t[i]
                   /\ RatEq(short_shots[k].duration_frames, frames)
                   /\ RatEq(reported[k].start, Rat(t[i], 1))
                   /\ RatEq(reported[k].extra, frames)

\* a run with a short shot, an interval of length zero and an interval of
\* length exactly min_frames/fps
C1_Witness ==
    /\ outcome["shots"] = "ran"
    /\ Len(short_shots) >= 1
    /\ \E i \in 1..(Len(scene_cut_times) - 1) :
            scene_cut_times[i + 1] = scene_cut_times[i]
    /\ \E i \in 1..(Len(scene_cut_times) - 1) :
            (scene_cut_times[i + 1] - scene_cut_times[i]) * metadata.fps[1]
                = SHORT_SHOT_MIN_FRAMES * metadata.fps[2]

(***************************************************************************)
(* C2.  Peak Detector edge detection: in every channel, the starts and     *)
(* ends found by differencing the padded mask are, paired in order, exactly *)
(* the maximal runs [a, b) of samples above the threshold, ascending; and  *)
(* the peaks reported for the channel are exactly the starts a/sample_rate *)
(* of the runs that pass the duration filter, ascending.                   *)
(***************************************************************************)
C2_EdgeDetection ==
    outcome["peaks"] = "ran" =>
        \A i \in 0..(actual_channels - 1) :
            LET cd == ChannelData(audio_data, actual_channels, i)
                sr == metadata.sample_rate
                starts == Starts(cd)
                ends == Ends(cd)
                runs == MaximalRuns(cd)
                short == ShortRuns(cd, sr)
                reported == FindingsOfChannel(log, "peaks", i + 1)
            IN /\ Len(starts) = Cardinality(runs)
               /\ Len(ends) = Cardinality(runs)
               /\ \A k \in 1..Len(starts) : <<starts[k], ends[k]>> \in runs
               /\ \A k \in 1..(Len(starts) - 1) : starts[k] < starts[k + 1]
               /\ Len(reported) = Cardinality(short)
               /\ \A k \in 1..Len(reported) :
                    /\ reported[k].start[2] = sr
                    /\ \E r \in short : r[1] = reported[k].start[1]
               /\ \A k \in 1..(Len(reported) - 1) :
                    reported[k].start[1] < reported[k + 1].start[1]

\* two channels, one with two runs, and peaks reported in both
C2_Witness ==
    /\ outcome["peaks"] = "ran"
    /\ actual_channels = 2
    /\ Cardinality(MaximalRuns(ChannelData(audio_data, 2, 0))) = 2
    /\ Len(FindingsOfChannel(log, "peaks", 1)) = 2
    /\ Len(FindingsOfChannel(log, "peaks", 2)) = 1

(***************************************************************************)
(* C3.  Peak Detector strictness: every reported peak starts a run [a, b)  *)
(* of its channel with 0 < (b - a)/sample_rate < PEAK_MAX_DURATION_S; a    *)
(* run that lasts PEAK_MAX_DURATION_S or longer is not reported; a sample  *)
(* whose absolute amplitude equals the threshold is in no run.             *)
(***************************************************************************)
C3_PeakStrictness ==
    outcome["peaks"] = "ran" =>
        \A i \in 0..(actual_channels - 1) :
            LET cd == ChannelData(audio_data, actual_channels, i)
                sr == metadata.sample_rate
                pairs == Zip(Starts(cd), Ends(cd))
                reported == FindingsOfChannel(log, "peaks", i + 1)
            IN /\ \A k \in 1..Len(reported) :
                    \E p \in 1..Len(pairs) :
                        /\ pairs[p][1] = reported[k].start[1]
                        /\ 0 < pairs[p][2] - pairs[p][1]
                        /\ RatLess(Rat(pairs[p][2] - pairs[p][1], sr),
                                   PEAK_MAX_DURATION_S)
               /\ \A p \in 1..Len(pairs) :
                    ~RatLess(Rat(pairs[p][2] - pairs[p][1], sr), PEAK_MAX_DURATION_S)
                        => \A k \in 1..Len(reported) :
                                reported[k].start[1] # pairs[p][1]
               /\ \A p \in 1..Len(pairs) :
                    \A j \in pairs[p][1]..(pairs[p][2] - 1) :
                        Abs(cd[j + 1]) # peak_amplitude_threshold

\* one channel with a reported peak, a run of exactly PEAK_MAX_DURATION_S
\* and a sample at the threshold
C3_Witness ==
    /\ outcome["peaks"] = "ran"
    /\ actual_channels = 1
    /\ Len(FindingsOf(log, "peaks")) >= 1
    /\ \E r \in MaximalRuns(audio_data) :
            RatEq(Rat(r[2] - r[1], metadata.sample_rate), PEAK_MAX_DURATION_S)
    /\ \E k \in 1..Len(audio_data) : Abs(audio_data[k]) = peak_amplitude_threshold

(***************************************************************************)
(* Helpers of the pipeline properties.                                     *)
(***************************************************************************)
Terminal == pc \in {"done", "aborted", "crashed"}

\* the Metadata Resolver was called and returned (a value or None)
ResolverReturned ==
    /\ pc \notin {"start", "metadata"}
    /\ "probe" \in engine_calls
    /\ probe.raises # "OSError"

\* c divides n
Divides(c, n) == \E k \in 0..n : k * c = n

\* the detectors that run after d
After(d) ==
    CASE d = "mute" -> {"shots", "peaks", "black"}
      [] d = "shots" -> {"peaks", "black"}
      [] d = "peaks" -> {"black"}
      [] OTHER -> {}

CatRank(cat) ==
    CASE cat = "mute" -> 1
      [] cat = "shots" -> 2
      [] cat = "peaks" -> 3
      [] OTHER -> 4

\* the positions of the audio streams of the probe that carry a channel count
ProbedChannelStreams ==
    {i \in DOMAIN probe.streams :
        /\ probe.streams[i].codec_type = "audio"
        /\ "channels" \in probe.streams[i].has}

\* the channel count with authority: the probed one if there is one
ExpectedChannels ==
    IF ProbedChannelStreams = {} THEN declared_channels
    ELSE probe.streams[KthOf(ProbedChannelStreams,
                             Cardinality(ProbedChannelStreams))].channels

CountMsg(l, text) == Len(SelectSeq(l, LAMBDA e : e.msg = text))

(***************************************************************************)
(* C4.  Channel-count mismatch: whenever the Peak Detector holds decoded   *)
(* samples whose count its channel count does not divide, it ends          *)
(* "skipped" (with the warning) and does not crash.                        *)
(* Violated: a probed channel count of 0 makes the divisibility test       *)
(* itself raise ZeroDivisionError.                                         *)
(***************************************************************************)
C4_MismatchSkipped ==
    (/\ variant = "gui"
     /\ audio_data # <<>>
     /\ ~Divides(actual_channels, Len(audio_data)))
        => /\ outcome["peaks"] = "skipped"
           /\ log[Len(log)].msg = "peaks_channel_mismatch"
           /\ pc # "crashed"

(***************************************************************************)
(* C5.  Partial-failure isolation: a detector that fails is caught at its  *)
(* boundary (its outcome is "failed", the run does not crash), every later *)
(* detector is executed and the run reaches its final step.                *)
(* Violated: the detectors of the gui catch nothing.                       *)
(***************************************************************************)
C5_PartialFailureIsolation ==
    \A d \in Detectors :
        outcome[d] \in {"failed", "crashed"}
            => /\ outcome[d] = "failed"
               /\ pc # "crashed"
               /\ Terminal => /\ pc = "done"
                              /\ \A e \in After(d) : outcome[e] # "none"

(***************************************************************************)
(* C6.  Hard dependency failure: when the Metadata Resolver returned no    *)
(* metadata, or no valid duration or frame rate, then at the end of the    *)
(* run the Shot and Peak detectors have reported "skipped" and the Mute    *)
(* and Black-Frame detectors have run.                                     *)
(* Violated: run_analysis of the gui returns when metadata is None.        *)
(***************************************************************************)
C6_HardDependencyFailure ==
    (/\ Terminal
     /\ ResolverReturned
     /\ (metadata.none \/ metadata.duration = 0 \/ RatIsZero(metadata.fps)))
        => /\ outcome["shots"] = "skipped"
           /\ outcome["peaks"] \in {"skipped", "stub"}
           /\ outcome["mute"] \in {"ran", "failed"}
           /\ outcome["black"] \in {"ran", "failed"}

C9_FrameRateGuard ==
    /\ (/\ ResolverReturned
        /\ ~metadata.none
        /\ \E i \in DOMAIN probe.streams :
            /\ probe.streams[i].codec_type = "video"
            /\ "r_frame_rate" \in probe.streams[i].has
            /\ probe.streams[i].r_frame_rate[2] = 0)
            => RatIsZero(metadata.fps)
    /\ (/\ outcome["shots"] # "none"
        /\ ~metadata.none
        /\ RatIsZero(metadata.fps))
            => /\ outcome["shots"] = "skipped"
               /\ FindingsOf(log, "shots") = <<>>

(***************************************************************************)
(* C10.  Channel-count authority (gui): the channel count the Peak         *)
(* Detector uses for its divisibility test, its de-interleaving and its    *)
(* loop over the channels is the probed one whenever the probe reports     *)
(* one, and the operator-declared one otherwise.                           *)
(***************************************************************************)
C10_ChannelAuthority ==
    (variant = "gui" /\ audio_data # <<>>)
        => /\ actual_channels = ExpectedChannels
           /\ outcome["peaks"] \in {"ran", "skipped", "crashed"}
           /\ outcome["peaks"] = "crashed" <=> ExpectedChannels = 0
           /\ outcome["peaks"] = "skipped"
                => Len(audio_data) % ExpectedChannels # 0
           /\ outcome["peaks"] = "ran"
                => /\ Len(audio_data) % ExpectedChannels = 0
                   /\ CountMsg(log, "peaks_channel") = ExpectedChannels
                   /\ \A e \in 1..Len(log) :
                        log[e].cat = "peaks" => log[e].channel \in 1..ExpectedChannels

\* one channel declared, two probed, and a peak found in the second channel
C10_Witness ==
    /\ variant = "gui"
    /\ outcome["peaks"] = "ran"
    /\ declared_channels = 1
    /\ ProbedChannelStreams # {}
    /\ actual_channels = 2
    /\ Len(FindingsOfChannel(log, "peaks", 2)) = 1

MarkedLines(lines) == {i \in 1..Len(lines) : lines[i].mark}
CompleteLines(lines) == {i \in 1..Len(lines) : lines[i].complete}

C11_CutSequenceAscending ==
    (/\ pc = "peaks"
     /\ outcome["shots"] = "ran"
     /\ metadata.duration > 0
     /\ CutsInOrder(stderr[1]))
        => /\ scene_cut_times[1] = 0
           /\ scene_cut_times[Len(scene_cut_times)] = metadata.duration
           /\ \A i \in 1..(Len(scene_cut_times) - 1) :
                scene_cut_times[i] <= scene_cut_times[i + 1]

(***************************************************************************)
(* The window of the gui (class App) and its analysis threads.             *)
(* A thread runs run_analysis: it logs messages one by one, the last of    *)
(* them "Analisis completado" if it gets that far, returns, and then stops *)
(* being alive.  The interactive thread runs the callbacks start_analysis  *)
(* and process_queue one at a time.                                        *)
(***************************************************************************)
\* a message of thread t, its n-th; completed: it holds "Analisis completado"
Message(t, n, completed) == [run |-> t, n |-> n, completed |-> completed]

\* threading.Thread.is_alive
IsAlive(t) == thread_pc[t] \in {"running", "returned"}

Started == {t \in 1..MaxRuns : thread_pc[t] # "unstarted"}

\* VideoAnalyzer.log: queue.put(message)
Put(m) ==
    /\ queue' = Append(queue, m)
    /\ logged' = Append(logged, m)

\* run_analysis logs a message that is not its last line
ThreadLogStep(t) ==
    /\ thread_pc[t] = "running"
    /\ put_count[t] < MaxMessages
    /\ Put(Message(t, put_count[t] + 1, FALSE))
    /\ put_count' = [put_count EXCEPT ![t] = @ + 1]
    /\ UNCHANGED <<output_text, analyze_button, status_var, analysis_thread,
                   thread_pc, ui_pc, displayed>>
    /\ UNCHANGED pipeVars

\* run_analysis logs "Analisis completado" and returns
ThreadCompleteStep(t) ==
    /\ thread_pc[t] = "running"
    /\ put_count[t] >= 1
    /\ Put(Message(t, put_count[t] + 1, TRUE))
    /\ put_count' = [put_count EXCEPT ![t] = @ + 1]
    /\ thread_pc' = [thread_pc EXCEPT ![t] = "returned"]
    /\ UNCHANGED <<output_text, analyze_button, status_var, analysis_thread,
                   ui_pc, displayed>>
    /\ UNCHANGED pipeVars

\* run_analysis returns early (binaries missing, no metadata) or is ended
\* by an exception, after its first message
ThreadReturnStep(t) ==
    /\ thread_pc[t] = "running"
    /\ put_count[t] >= 1
    /\ thread_pc' = [thread_pc EXCEPT ![t] = "returned"]
    /\ UNCHANGED <<queue, output_text, analyze_button, status_var,
                   analysis_thread, put_count, ui_pc, logged, displayed>>
    /\ UNCHANGED pipeVars

\* the thread whose target has returned stops being alive
ThreadExitStep(t) ==
    /\ thread_pc[t] = "returned"
    /\ thread_pc' = [thread_pc EXCEPT ![t] = "dead"]
    /\ UNCHANGED <<queue, output_text, analyze_button, status_var,
                   analysis_thread, put_count, ui_pc, logged, displayed>>
    /\ UNCHANGED pipeVars

\* what the operator may have typed
FilePaths == {"", "video.mxf"}
ChannelEntries == {"x", "0", "2"}

\* int(self.num_channels.get()): -1 stands for the ValueError
IntOf(entry) ==
    CASE entry = "0" -> 0
      [] entry = "2" -> 2
      [] OTHER -> 0 - 1

\* One click on the button.  Tk runs the command of a button only while
\* its state is not "disabled".
StartAnalysisStep ==
    /\ ui_pc = "idle"
    /\ analyze_button # "disabled"
    /\ Cardinality(Started) < MaxRuns
    /\ \E file_path \in FilePaths, entry \in ChannelEntries :
        IF file_path = "" \/ IntOf(entry) <= 0
        THEN UNCHANGED appVars
        ELSE LET t == Cardinality(Started) + 1
             IN /\ analyze_button' = "disabled"
                /\ output_text' = <<>>
                /\ status_var' = "analysing"
                /\ thread_pc' = [thread_pc EXCEPT ![t] = "running"]
                /\ analysis_thread' = t
                /\ UNCHANGED <<queue, put_count, ui_pc, logged, displayed>>
    /\ UNCHANGED pipeVars

\* a variant of Insert that puts the message at the top
InsertMutPrepend(text, m) == <<m>> \o text

\* output_text.insert(tk.END, message + "\n")
Insert(text, m) == Append(text, m)

\* process_queue: one queue.get_nowait() that returns a message
ProcessQueueGetStep ==
    /\ ui_pc \in {"idle", "draining"}
    /\ queue # <<>>
    /\ output_text' = Insert(output_text, Head(queue))
    /\ displayed' = Append(displayed, Head(queue))
    /\ queue' = Tail(queue)
    /\ ui_pc' = "draining"
    /\ UNCHANGED <<analyze_button, status_var, analysis_thread, thread_pc,
                   put_count, logged>>
    /\ UNCHANGED pipeVars

\* process_queue: queue.get_nowait() raises queue.Empty
ProcessQueueEmptyStep ==
    /\ ui_pc \in {"idle", "draining"}
    /\ queue = <<>>
    /\ ui_pc' = "check"
    /\ UNCHANGED <<queue, output_text, analyze_button, status_var,
                   analysis_thread, thread_pc, put_count, logged, displayed>>
    /\ UNCHANGED pipeVars

\* a variant of ThreadFinished without the is_alive test
ThreadFinishedMutNoAlive ==
    /\ analysis_thread # 0
    /\ analyze_button = "disabled"

\* hasattr(self, 'analysis_thread') and not self.analysis_thread.is_alive()
\* and self.analyze_button['state'] == 'disabled'
ThreadFinished ==
    /\ analysis_thread # 0
    /\ ~IsAlive(analysis_thread)
    /\ analyze_button = "disabled"

\* "Analisis completado" in output_text.get("end-2l", "end-1c")
LastLineCompleted ==
    /\ output_text # <<>>
    /\ output_text[Len(output_text)].completed

\* process_queue after the drain: the test of the thread, then after(100, ...)
ProcessQueueCheckStep ==
    /\ ui_pc = "check"
    /\ IF ThreadFinished
       THEN /\ analyze_button' = "normal"
            /\ status_var' = (IF LastLineCompleted THEN "completed" ELSE "errors")
       ELSE UNCHANGED <<analyze_button, status_var>>
    /\ ui_pc' = "idle"
    /\ UNCHANGED <<queue, output_text, analysis_thread, thread_pc, put_count,
                   logged, displayed>>
    /\ UNCHANGED pipeVars

(***************************************************************************)
(* SpecApp: the window with up to MaxRuns analyses, every interleaving of  *)
(* the analysis threads with the callbacks of the interactive thread.      *)
(* SpecAppLive adds what the scheduling gives: the timer runs              *)
(* process_queue again and again, and a thread that can step does.         *)
(***************************************************************************)
InitApp ==
    /\ variant = "gui"
    /\ pc = "start"
    /\ file_exists = TRUE
    /\ ffmpeg_exists = TRUE
    /\ ffprobe_exists = TRUE
    /\ version_check = "none"
    /\ num_channels = 1
    /\ declared_channels = num_channels
    /\ stderr = <<>>
    /\ probe = NoProbe
    /\ metadata = NoneMetadata
    /\ log = <<>>
    /\ outcome = NoOutcome
    /\ engine_calls = {}
    /\ scene_cut_times = <<>>
    /\ short_shots = <<>>
    /\ audio_data = <<>>
    /\ actual_channels = 0
    /\ AppIdle

process_queue ==
    \/ ProcessQueueGetStep
    \/ ProcessQueueEmptyStep
    \/ ProcessQueueCheckStep

run_analysis(t) ==
    \/ ThreadLogStep(t)
    \/ ThreadCompleteStep(t)
    \/ ThreadReturnStep(t)
    \/ ThreadExitStep(t)

NextApp ==
    \/ StartAnalysisStep
    \/ process_queue
    \/ \E t \in 1..MaxRuns : run_analysis(t)

SpecApp == InitApp /\ [][NextApp]_vars

SpecAppLive ==
    /\ InitApp
    /\ [][NextApp]_vars
    /\ WF_vars(process_queue)
    /\ \A t \in 1..MaxRuns : WF_vars(run_analysis(t))

(***************************************************************************)
(* Helpers of the properties of the window.                                *)
(***************************************************************************)
IsSuffix(a, b) ==
    \E k \in 0..Len(b) : a = SubSeq(b, k + 1, Len(b))

LoggedCompleted(t) ==
    \E k \in 1..Len(logged) : logged[k].run = t /\ logged[k].completed

(***************************************************************************)
(* C12.  Pipeline completion in the gui: the messages are taken from the   *)
(* queue and displayed in the order they were logged, none lost; every     *)
(* analysis thread that runs stops; every message logged is eventually     *)
(* displayed; the button, once disabled, is eventually enabled again.      *)
(***************************************************************************)
C12_PipelineCompletion ==
    /\ [](logged = displayed \o queue)
    /\ [](IsSuffix(output_text, displayed))
    /\ \A t \in 1..MaxRuns :
        (thread_pc[t] = "running") ~> (thread_pc[t] = "dead")
    /\ \A k \in 1..(MaxRuns * (MaxMessages + 1)) :
        (Len(logged) >= k) ~> (Len(displayed) >= k)
    /\ (analyze_button = "disabled") ~> (analyze_button = "normal")

\* an analysis is over: its thread is dead, its messages, the last of them
\* "Analisis completado", are all on display and the button is enabled
C12_Witness ==
    /\ analysis_thread # 0
    /\ thread_pc[analysis_thread] = "dead"
    /\ analyze_button = "normal"
    /\ queue = <<>>
    /\ Len(output_text) >= 2
    /\ output_text = logged
    /\ LastLineCompleted

(***************************************************************************)
(* C13.  Completion status under interleaving: when the thread of the      *)
(* analysis logged "Analisis completado" and the window has settled on a   *)
(* status for it (the button is enabled again), the status is "completed". *)
(* Violated: the thread logs its last message and stops between the drain  *)
(* of process_queue and its is_alive test.                                 *)
(***************************************************************************)
C13_CompletedStatus ==
    (/\ analysis_thread # 0
     /\ analyze_button = "normal"
     /\ LoggedCompleted(analysis_thread))
        => status_var = "completed"

(***************************************************************************)
(* C14.  Single analysis at a time: at most one analysis thread is alive,  *)
(* it is the one the window holds, and while it is alive the button is     *)
(* disabled.                                                               *)
(***************************************************************************)
C14_SingleAnalysis ==
    /\ Cardinality({t \in 1..MaxRuns : IsAlive(t)}) <= 1
    /\ \A t \in 1..MaxRuns :
        IsAlive(t) => /\ t = analysis_thread
                      /\ analyze_button = "disabled"

\* a second analysis runs after the first one's thread has stopped
C14_Witness ==
    /\ thread_pc[1] = "dead"
    /\ analysis_thread = 2
    /\ IsAlive(2)
    /\ analyze_button = "disabled"

====
